---- MODULE Spec2Model ----
(***************************************************************************)
(* The vertex drag-and-deform interaction of the scene editor.             *)
(*                                                                         *)
(* Two revisions of the Scene component are modelled side by side:         *)
(*   rev = "weld"   src/src/components/Scene.tsx: plane projection, the    *)
(*                  coincidence scan ("weld"), deduplicated handles;       *)
(*   rev = "delta"  src/unnamed/part_000: direct delta of e.point applied  *)
(*                  to selectedElements[0], one handle per buffer entry,   *)
(*                  edge and face handles.                                 *)
(*                                                                         *)
(* Lengths are integers in units of 0.0005 scene units, so the scan's      *)
(* "< 0.001" is "< Tol" with Tol = 2, the camera's [5, 5, 5] is            *)
(* <<10000, 10000, 10000>>, and toFixed(4) keeps every grid value apart.   *)
(* Mesh world matrices are restricted to a unit scale s in {1, -1} and a   *)
(* translation t, whose inverse is exact on the integers.                  *)
(***************************************************************************)
EXTENDS Integers, Sequences, FiniteSets, TLC

VARIABLES
    rev,                \* which revision of the component runs
    positionAttribute,  \* geometry.attributes.position: index -> local position
    normalsStale,       \* positions were written after the last computeVertexNormals
    matrixWorld,        \* selectedObject.matrixWorld
    camera,             \* camera.position
    editMode,           \* store: editMode
    selectedObject,     \* store: a mesh is selected (TRUE) or null (FALSE)
    selectedElements,   \* store: selectedElements, a list of indices
    handles,            \* the DraggableVertex instances of the last render, by key
    dragStart,          \* each instance's dragStart ref: <<>> is undefined
    orbitAttr,          \* the 'enabled' attribute of the DOM element .orbit-controls
    session,            \* history: what the drag session of the last press has done
    ev                  \* history: the last release, click or mode change, if
                        \* it was the last step

vars == <<rev, positionAttribute, normalsStale, matrixWorld, camera, editMode,
          selectedObject, selectedElements, handles, dragStart, orbitAttr,
          session, ev>>

----------------------------------------------------------------------------
(* Bounds of the model and constants of the program. *)

\* The scan's tolerance 0.001, in units of 0.0005.
Tol == 2

\* The distance between the two corners of the mesh along the line (k, -k, 0).
Spacing == 40

\* The camera's initial coordinate 5 on every axis, in units of 0.0005.
Far == 10000

\* Number of moves a session's history counts before it saturates.
MaxMoves == 3

----------------------------------------------------------------------------
(* THREE.Vector3 *)

Vec(x, y, z) == <<x, y, z>>

Zero == Vec(0, 0, 0)

VAdd(a, b) == Vec(a[1] + b[1], a[2] + b[2], a[3] + b[3])

VSub(a, b) == Vec(a[1] - b[1], a[2] - b[2], a[3] - b[3])

VScale(k, a) == Vec(k * a[1], k * a[2], k * a[3])

Dot(a, b) == a[1] * b[1] + a[2] * b[2] + a[3] * b[3]

Abs(n) == IF n < 0 THEN -n ELSE n

\* The point (k, -k, 0).
OnLine(k) == Vec(k, -k, 0)

\* The coordinates k the pointer can target: the two corners, and a point
\* within the scan's tolerance of the first.
Ks == {0, 1, Spacing}

\* World-space points a pointer ray can pass through.
Points == {OnLine(k) : k \in Ks}

\* The positions explored: the targets and their mirror images.
Explored == Points \cup {OnLine(Spacing - k) : k \in Ks}

InBounds(p) == p \in Explored

----------------------------------------------------------------------------
(* THREE.Matrix4, restricted to w = s * l + t with s in {1, -1}. *)

Identity == [s |-> 1, t |-> Zero]

\* Mirrors the mesh through the midpoint of the two corners.
Mirror == [s |-> -1, t |-> OnLine(Spacing)]

Matrices == {Identity, Mirror}

ApplyMatrix4(v, m) == VAdd(VScale(m.s, v), m.t)

Invert(m) == [s |-> m.s, t |-> VScale(-m.s, m.t)]

----------------------------------------------------------------------------
(* The mesh: a vertex buffer with duplicate entries at a shared corner. *)

\* Entries 0 and 1 are the duplicates of one corner, entry 2 is another corner.
InitBuffer == [i \in 0..2 |-> IF i < 2 THEN OnLine(0) ELSE OnLine(Spacing)]

\* positionAttribute.count
Count == Cardinality(DOMAIN positionAttribute)

\* Number.prototype.toFixed(4) of a coordinate: its value in units of 0.0001.
ToFixed4(x) == 5 * x

\* The key of MeshHelpers' uniqueVertices map.
VertexKey(v) == <<ToFixed4(v[1]), ToFixed4(v[2]), ToFixed4(v[3])>>

\* The ascending sequence of the members of a set of indices.
RECURSIVE Ascending(_)
Ascending(S) ==
    IF S = {} THEN <<>>
    ELSE LET lo == CHOOSE x \in S : \A y \in S : x <= y
         IN <<lo>> \o Ascending(S \ {lo})

\* vertexIndices of Scene.tsx: the first buffer index of every distinct key.
VertexIndices(buf, m) ==
    Ascending({i \in DOMAIN buf :
        \A j \in DOMAIN buf :
            j < i => VertexKey(ApplyMatrix4(buf[j], m)) # VertexKey(ApplyMatrix4(buf[i], m))})

\* vertices of part_000: every buffer index is a handle.
AllIndices(buf) == Ascending(DOMAIN buf)

Includes(list, x) == \E k \in 1..Len(list) : list[k] = x

\* A MeshHelpers that keeps the DraggableVertex instances in every edit mode
\* but object mode.
ShowsHandlesInEditModes(mode, obj) == obj /\ mode # "object"

\* Whether MeshHelpers returns the group of DraggableVertex instances.
ShowsVertexHandles(mode, obj) == obj /\ mode = "vertex"

\* The DraggableVertex instances MeshHelpers returns, by key (1-based here),
\* each with the props its handlers read. The handlers of part_000 never read
\* position, so its instances carry no position here.
Render(r, mode, obj, elems, buf, m) ==
    IF ~ShowsVertexHandles(mode, obj) THEN <<>>
    ELSE IF r = "weld"
    THEN LET idx == VertexIndices(buf, m)
         IN [k \in 1..Len(idx) |->
                [position    |-> ApplyMatrix4(buf[idx[k]], m),
                 vertexIndex |-> idx[k],
                 selected    |-> Includes(elems, idx[k])]]
    ELSE LET idx == AllIndices(buf)
         IN [k \in 1..Len(idx) |->
                [vertexIndex |-> idx[k],
                 selected    |-> Includes(elems, idx[k])]]

\* React keeps an instance (and its refs) whose key is rendered again, and
\* mounts a new instance, with undefined refs, for a key that was not there.
Remount(refs, newHandles) ==
    [k \in 1..Len(newHandles) |-> IF k <= Len(refs) THEN refs[k] ELSE <<>>]

----------------------------------------------------------------------------
(* History records. *)

NoEvent == [kind |-> "none", index |-> 0, hadAnchor |-> FALSE, recomputed |-> FALSE]

\* The indices of buf within the scan's tolerance of point a.
Coincident(buf, a) ==
    {i \in DOMAIN buf : \A x \in 1..3 : Abs(buf[i][x] - a[x]) < Tol}

NewSession(k, anchor, worldStart) ==
    [key     |-> k,
     group   |-> Coincident(positionAttribute, anchor),
     written |-> {},
     pre     |-> positionAttribute,
     start   |-> worldStart,
     last    |-> worldStart,
     moves   |-> 0,
     missed  |-> FALSE]

Bump(n) == IF n < MaxMoves THEN n + 1 ELSE n

\* The session's history ends with the instance it belongs to.
EndSession(k) == IF session # <<>> /\ session.key = k THEN <<>> ELSE session

Tracked(k) == session # <<>> /\ session.key = k

----------------------------------------------------------------------------
(* The store (src/store/sceneStore is not among the sources): a mutator     *)
(* replaces its field, and every component that reads the store renders     *)
(* again before the next event.                                             *)

Rerender(mode, obj, elems) ==
    LET hs == Render(rev, mode, obj, elems, positionAttribute, matrixWorld)
    IN /\ handles' = hs
       /\ dragStart' = Remount(dragStart, hs)
       /\ session' = IF session # <<>> /\ session.key > Len(hs) THEN <<>> ELSE session

selectElements(list) ==
    /\ selectedElements' = list
    /\ Rerender(editMode, selectedObject, list)
    /\ UNCHANGED <<editMode, selectedObject>>

Init ==
    /\ rev \in {"weld", "delta"}
    /\ positionAttribute = InitBuffer
    /\ normalsStale = FALSE
    /\ matrixWorld = Identity
    /\ camera = Vec(Far, Far, Far)
    /\ editMode = "object"
    /\ selectedObject = FALSE
    /\ selectedElements = <<>>
    /\ handles = <<>>
    /\ dragStart = <<>>
    /\ orbitAttr \in IF rev = "weld" THEN {"none", "unset"} ELSE {"none"}
    /\ session = <<>>
    /\ ev = NoEvent

----------------------------------------------------------------------------
(* DraggableVertex of src/src/components/Scene.tsx *)

Keys == 1..Len(handles)

SetRef(refs, k, v) == [refs EXCEPT ![k] = v]

\* controls.setAttribute('enabled', v), when document.querySelector finds it.
SetOrbitAttr(v) == IF orbitAttr = "none" THEN "none" ELSE v

\* The anchor onPointerDown leaves in dragStart.current.
DownAnchor(k) ==
    IF handles[k].selected THEN handles[k].position ELSE dragStart[k]

onPointerDown(k) ==
    /\ rev = "weld"
    /\ dragStart' = SetRef(dragStart, k, DownAnchor(k))
    /\ orbitAttr' = IF handles[k].selected THEN SetOrbitAttr("false") ELSE orbitAttr
    /\ session' = IF handles[k].selected
                  THEN NewSession(k, DownAnchor(k), handles[k].position)
                  ELSE session
    /\ ev' = NoEvent
    /\ UNCHANGED <<rev, positionAttribute, normalsStale, matrixWorld, camera,
                   editMode, selectedObject, selectedElements, handles>>

\* THREE.Ray.intersectPlane for the ray from origin through the point
\* `through` and the plane with the given normal through planePoint: <<>> is
\* null. The normal is left unnormalised, which changes neither the sign of the
\* denominator nor the distance t along (through - origin). Only rays whose t
\* is an integer are drawn.
IntersectPlane(origin, through, normal, planePoint) ==
    LET d           == VSub(through, origin)
        denominator == Dot(normal, d)
        numerator   == Dot(planePoint, normal) - Dot(origin, normal)
    IN IF denominator = 0
       THEN IF numerator = 0 THEN origin ELSE <<>>
       ELSE IF numerator # 0 /\ (numerator < 0) # (denominator < 0)
            THEN <<>>
            ELSE VAdd(origin, VScale(Abs(numerator) \div Abs(denominator), d))

\* Whether the distance along the ray is an integer number of (through - origin).
IntegerRay(origin, through, normal, planePoint) ==
    LET denominator == Dot(normal, VSub(through, origin))
        numerator   == Dot(planePoint, normal) - Dot(origin, normal)
    IN IF denominator = 0 THEN TRUE
       ELSE Abs(numerator) % Abs(denominator) = 0

\* The guard of onPointerMove.
MoveGuard(k) == dragStart[k] # <<>> /\ handles[k].selected /\ selectedObject

\* intersectionPoint after raycaster.ray.intersectPlane(plane, intersectionPoint):
\* the target vector keeps its initial (0, 0, 0) when the call returns null.
IntersectionPoint(k, through) ==
    LET planeNormal == VSub(camera, handles[k].position)
        hit == IntersectPlane(camera, through, planeNormal, handles[k].position)
    IN IF hit = <<>> THEN Zero ELSE hit

RayMisses(k, through) ==
    IntersectPlane(camera, through, VSub(camera, handles[k].position),
                   handles[k].position) = <<>>

\* localPosition
LocalPosition(k, through) ==
    ApplyMatrix4(IntersectionPoint(k, through), Invert(matrixWorld))

\* The indices the scan of onPointerMove overwrites.
Connected(buf, anchor) ==
    {i \in DOMAIN buf :
        /\ Abs(buf[i][1] - anchor[1]) < Tol
        /\ Abs(buf[i][2] - anchor[2]) < Tol
        /\ Abs(buf[i][3] - anchor[3]) < Tol}

onPointerMove(k, through) ==
    /\ rev = "weld"
    /\ IntegerRay(camera, through, VSub(camera, handles[k].position), handles[k].position)
    /\ InBounds(IntersectionPoint(k, through))
    /\ IF MoveGuard(k)
       THEN LET localPosition == LocalPosition(k, through)
                hits == Connected(positionAttribute, dragStart[k])
            IN /\ positionAttribute' =
                      [i \in DOMAIN positionAttribute |->
                          IF i \in hits THEN localPosition ELSE positionAttribute[i]]
               /\ normalsStale' = FALSE
               /\ dragStart' = SetRef(dragStart, k, localPosition)
               /\ session' = IF ~Tracked(k) THEN session
                              ELSE [session EXCEPT
                                       !.written = @ \cup hits,
                                       !.last = IntersectionPoint(k, through),
                                       !.moves = Bump(@),
                                       !.missed = @ \/ RayMisses(k, through)]
               /\ ev' = NoEvent
       ELSE /\ ev' = NoEvent
            /\ UNCHANGED <<positionAttribute, normalsStale, dragStart, session>>
    /\ UNCHANGED <<rev, matrixWorld, camera, editMode, selectedObject,
                   selectedElements, handles, orbitAttr>>

onPointerUp(k) ==
    /\ rev = "weld"
    /\ dragStart' = SetRef(dragStart, k, <<>>)
    /\ session' = EndSession(k)
    /\ orbitAttr' = SetOrbitAttr("true")
    /\ ev' = [NoEvent EXCEPT !.kind = "up", !.hadAnchor = (dragStart[k] # <<>>)]
    /\ UNCHANGED <<rev, positionAttribute, normalsStale, matrixWorld, camera,
                   editMode, selectedObject, selectedElements, handles>>

\* A handleElementSelect that adds the handle's index to the selection.
handleElementSelectAdding(k) == Append(selectedElements, handles[k].vertexIndex)

\* MeshHelpers.handleElementSelect of Scene.tsx: index is the handle's key.
handleElementSelect(k) == <<handles[k].vertexIndex>>

ClickVertex(k) ==
    /\ rev = "weld"
    /\ selectElements(handleElementSelect(k))
    /\ ev' = [NoEvent EXCEPT !.kind = "click", !.index = handles[k].vertexIndex]
    /\ UNCHANGED <<rev, positionAttribute, normalsStale, matrixWorld, camera,
                   orbitAttr>>

----------------------------------------------------------------------------
(* DraggableVertex and the edge and face handles of src/unnamed/part_000 *)

onPointerDown_000(k, point) ==
    /\ rev = "delta"
    /\ dragStart' = SetRef(dragStart, k, point)
    /\ ev' = NoEvent
    /\ UNCHANGED <<rev, positionAttribute, normalsStale, matrixWorld, camera,
                   editMode, selectedObject, selectedElements, handles, orbitAttr,
                   session>>

\* The index onPointerMove writes: selectedElements[0]. A write at an index
\* that is undefined or outside the typed array changes nothing.
Written_000(buf, elems) ==
    IF Len(elems) > 0 /\ elems[1] \in DOMAIN buf THEN {elems[1]} ELSE {}

onPointerMove_000(k, point) ==
    /\ rev = "delta"
    /\ IF dragStart[k] # <<>> /\ selectedObject
       THEN LET delta == VSub(point, dragStart[k])
                hits == Written_000(positionAttribute, selectedElements)
            IN /\ \A i \in hits : InBounds(VAdd(positionAttribute[i], delta))
               /\ positionAttribute' =
                      [i \in DOMAIN positionAttribute |->
                          IF i \in hits THEN VAdd(positionAttribute[i], delta)
                          ELSE positionAttribute[i]]
               /\ normalsStale' = (normalsStale \/ hits # {})
               /\ dragStart' = SetRef(dragStart, k, point)
               /\ ev' = NoEvent
       ELSE /\ ev' = NoEvent
            /\ UNCHANGED <<positionAttribute, normalsStale, dragStart>>
    /\ UNCHANGED <<rev, matrixWorld, camera, editMode, selectedObject,
                   selectedElements, handles, orbitAttr, session>>

\* An onPointerUp that recomputes the normals on every release.
onPointerUpRecomputing_000(k) ==
    /\ rev = "delta"
    /\ dragStart' = SetRef(dragStart, k, <<>>)
    /\ normalsStale' = FALSE
    /\ ev' = [NoEvent EXCEPT !.kind = "up", !.hadAnchor = (dragStart[k] # <<>>),
                             !.recomputed = TRUE]
    /\ UNCHANGED <<rev, positionAttribute, matrixWorld, camera, editMode,
                   selectedObject, selectedElements, handles, orbitAttr, session>>

onPointerUp_000(k) ==
    /\ rev = "delta"
    /\ dragStart' = SetRef(dragStart, k, <<>>)
    /\ ev' = [NoEvent EXCEPT !.kind = "up", !.hadAnchor = (dragStart[k] # <<>>)]
    /\ UNCHANGED <<rev, positionAttribute, normalsStale, matrixWorld, camera,
                   editMode, selectedObject, selectedElements, handles, orbitAttr,
                   session>>

\* MeshHelpers.handleElementSelect of part_000: index is the element's index.
handleElementSelect_000(index) == <<index>>

ClickVertex_000(k) ==
    /\ rev = "delta"
    /\ selectElements(handleElementSelect_000(handles[k].vertexIndex))
    /\ ev' = [NoEvent EXCEPT !.kind = "click", !.index = handles[k].vertexIndex]
    /\ UNCHANGED <<rev, positionAttribute, normalsStale, matrixWorld, camera,
                   orbitAttr>>

\* The triangles the edge and face loops of part_000 step through.
Triangles == (Count + 2) \div 3

\* The number of EdgeHelper instances in edge mode.
EdgeCount == 3 * Triangles

\* The number of face handles in face mode.
FaceCount == Triangles

\* The indices of the handles of the current mode other than vertex mode.
ElementIndices ==
    IF rev # "delta" \/ ~selectedObject THEN {}
    ELSE IF editMode = "edge" THEN 0..(EdgeCount - 1)
    ELSE IF editMode = "face" THEN 0..(FaceCount - 1)
    ELSE {}

ClickElement_000(i) ==
    /\ rev = "delta"
    /\ i \in ElementIndices
    /\ selectElements(handleElementSelect_000(i))
    /\ ev' = [NoEvent EXCEPT !.kind = "click", !.index = i]
    /\ UNCHANGED <<rev, positionAttribute, normalsStale, matrixWorld, camera,
                   orbitAttr>>

----------------------------------------------------------------------------
(* Scene: the canvas, the objects, the gizmo and the orbit controls *)

\* Canvas onClick on the background.
CanvasClick ==
    /\ selectedObject' = FALSE
    /\ selectedElements' = <<>>
    /\ Rerender(editMode, FALSE, <<>>)
    /\ ev' = NoEvent
    /\ UNCHANGED <<rev, positionAttribute, normalsStale, matrixWorld, camera,
                   editMode, orbitAttr>>

\* onClick of the object's primitive, without ctrl or meta.
PrimitiveClick ==
    /\ selectedObject' = TRUE
    /\ Rerender(editMode, TRUE, selectedElements)
    /\ ev' = NoEvent
    /\ UNCHANGED <<rev, positionAttribute, normalsStale, matrixWorld, camera,
                   editMode, selectedElements, orbitAttr>>

Modes == {"object", "vertex", "edge", "face"}

\* The store's edit mode mutator.
setEditMode(mode) ==
    /\ mode # editMode
    /\ editMode' = mode
    /\ Rerender(mode, selectedObject, selectedElements)
    /\ ev' = [NoEvent EXCEPT !.kind = "mode",
                             !.hadAnchor = (\E k \in Keys : dragStart[k] # <<>>)]
    /\ UNCHANGED <<rev, positionAttribute, normalsStale, matrixWorld, camera,
                   selectedObject, selectedElements, orbitAttr>>

\* The enabled prop of <OrbitControls>.
OrbitEnabled == IF rev = "weld" THEN editMode = "object" ELSE TRUE

\* Camera positions orbit navigation reaches.
CameraPositions == {Vec(Far, Far, Far), Vec(Far + 2 * Spacing, Far, Far)}

Orbit(c) ==
    /\ OrbitEnabled
    /\ c # camera
    /\ camera' = c
    /\ ev' = NoEvent
    /\ UNCHANGED <<rev, positionAttribute, normalsStale, matrixWorld, editMode,
                   selectedObject, selectedElements, handles, dragStart,
                   orbitAttr, session>>

\* Whether a <TransformControls> gizmo is attached to the selected object.
GizmoShown ==
    /\ selectedObject
    /\ \/ editMode = "object"
       \/ rev = "delta" /\ editMode \in {"edge", "face"} /\ Len(selectedElements) > 0

\* The gizmo moves the object: onObjectChange then refreshes the store.
TransformObject(m) ==
    /\ GizmoShown
    /\ m # matrixWorld
    /\ matrixWorld' = m
    /\ handles' = Render(rev, editMode, selectedObject, selectedElements,
                         positionAttribute, m)
    /\ dragStart' = Remount(dragStart, handles')
    /\ session' = IF session # <<>> /\ session.key > Len(handles') THEN <<>> ELSE session
    /\ ev' = NoEvent
    /\ UNCHANGED <<rev, positionAttribute, normalsStale, camera, editMode,
                   selectedObject, selectedElements, orbitAttr>>

----------------------------------------------------------------------------

\* A direction perpendicular to n.
Perpendicular(n) == Vec(n[2], -n[1], 0)

\* Points a pointer ray from the camera can pass through: the targets, a point
\* beside the camera in a direction parallel to the projection plane, and a
\* point behind the camera, away from the plane.
RayTargets(k) ==
    LET planeNormal == VSub(camera, handles[k].position)
    IN Points \cup {VAdd(camera, Perpendicular(planeNormal)),
                    VAdd(camera, planeNormal)}

\* The values of e.point drawn in part_000.
HitPoints == {OnLine(0), OnLine(Spacing)}

Next ==
    \/ \E k \in Keys : onPointerDown(k)
    \/ \E k \in Keys : rev = "weld" /\ \E through \in RayTargets(k) : onPointerMove(k, through)
    \/ \E k \in Keys : onPointerUp(k)
    \/ \E k \in Keys : ClickVertex(k)
    \/ \E k \in Keys : \E point \in HitPoints : onPointerDown_000(k, point)
    \/ \E k \in Keys : \E point \in HitPoints : onPointerMove_000(k, point)
    \/ \E k \in Keys : onPointerUp_000(k)
    \/ \E k \in Keys : ClickVertex_000(k)
    \/ \E i \in 0..(EdgeCount - 1) : ClickElement_000(i)
    \/ CanvasClick
    \/ PrimitiveClick
    \/ \E mode \in Modes : setEditMode(mode)
    \/ \E c \in CameraPositions : Orbit(c)
    \/ \E m \in Matrices : TransformObject(m)

Spec == Init /\ [][Next]_vars

----------------------------------------------------------------------------
(* Properties *)

NoAnchor == \A k \in Keys : dragStart[k] = <<>>

AnchorHeld == \E k \in Keys : dragStart[k] # <<>>

\* The handle shows the buffer entry it stands for as the buffer is now.
HandleFresh(k) ==
    handles[k].position =
        ApplyMatrix4(positionAttribute[handles[k].vertexIndex], matrixWorld)

\* A press on, and a move over, the instance with key k.
PressOn(k) ==
    IF rev = "weld" THEN onPointerDown(k)
    ELSE \E point \in HitPoints : onPointerDown_000(k, point)

MoveOn(k) ==
    IF rev = "weld" THEN \E through \in RayTargets(k) : onPointerMove(k, through)
    ELSE \E point \in HitPoints : onPointerMove_000(k, point)

\* C1: in a drag session of Scene.tsx (identity world matrix, every ray
\* hitting the plane), the indices written are within the group coincident
\* with the anchor at the press, and are exactly that group once a move was
\* applied.
C1_WritesOnlyStartGroup ==
    (rev = "weld" /\ session # <<>> /\ matrixWorld = Identity /\ ~session.missed)
        => /\ session.written \subseteq session.group
           /\ session.moves > 0 => session.written = session.group

\* C2: right after a press on a selected handle that shows its buffer entry,
\* the anchor is that entry's position in the mesh's local space, and the
\* entries the first scan will match include the pressed handle's entry.
C2_AnchorInLocalSpace ==
    (rev = "weld" /\ session # <<>> /\ session.moves = 0
        /\ dragStart[session.key] # <<>> /\ HandleFresh(session.key))
        => /\ dragStart[session.key] =
                 ApplyMatrix4(handles[session.key].position, Invert(matrixWorld))
           /\ handles[session.key].vertexIndex
                 \in Connected(positionAttribute, dragStart[session.key])

\* C3: a move of an active drag whose ray does not intersect the projection
\* plane writes no buffer entry and leaves the anchor as it was.
C3_MissIgnored ==
    [][\A k \in Keys :
          rev = "weld" =>
              \A through \in RayTargets(k) :
                  (MoveGuard(k) /\ RayMisses(k, through) /\ onPointerMove(k, through))
                      => /\ positionAttribute' = positionAttribute
                         /\ dragStart' = dragStart]_vars

\* C4: a press on a handle that is not selected captures no anchor, and a move
\* over a handle that is not selected writes nothing to the vertex buffer.
C4_UnselectedPressInert ==
    [][\A k \in Keys :
          ~handles[k].selected =>
              /\ PressOn(k) => dragStart'[k] = dragStart[k]
              /\ MoveOn(k) => positionAttribute' = positionAttribute]_vars

\* C5: a release on an instance that holds no anchor changes nothing: the
\* vertex buffer and the normals are as before, no normals recomputation is
\* triggered, and no instance gains or loses an anchor.
C5_ReleaseWithoutPressNoOp ==
    [][(ev'.kind = "up" /\ ~ev'.hadAnchor)
          => /\ positionAttribute' = positionAttribute
             /\ normalsStale' = normalsStale
             /\ ~ev'.recomputed
             /\ dragStart' = dragStart]_vars

\* C5 witness: a release has just been handled by an instance that held no anchor.
C5_Witness == ev.kind = "up" /\ ~ev.hadAnchor /\ positionAttribute # InitBuffer

\* C6: in a drag session of Scene.tsx (identity world matrix, every ray
\* hitting the plane) of two moves, the second of which brings the pointer
\* back to where the handle was pressed, the vertex buffer is as it was at
\* the press.
C6_RoundTrip ==
    (rev = "weld" /\ session # <<>> /\ matrixWorld = Identity /\ ~session.missed
        /\ session.moves = 2 /\ session.last = session.start)
        => positionAttribute = session.pre

\* C7: right after a click on a vertex, edge or face handle, the selection is
\* the list of exactly that handle's index.
C7_ClickReplacesSelection ==
    ev.kind = "click" => selectedElements = <<ev.index>>

\* C7 witness: a click on the handle of index 2 has replaced a selection.
C7_Witness == ev.kind = "click" /\ ev.index = 2 /\ selectedElements = <<2>>

\* C8: right after a change of the edit mode no instance holds an anchor, and
\* a step from a state in which no instance holds an anchor never changes the
\* vertex buffer: after a mode change only a new press lets a move write.
C8_ModeChangeEndsDrag ==
    [][/\ ev'.kind = "mode" => \A k \in 1..Len(handles') : dragStart'[k] = <<>>
       /\ NoAnchor => positionAttribute' = positionAttribute]_vars

\* C8 witness: the edit mode was changed while an instance held an anchor.
C8_Witness == ev.kind = "mode" /\ ev.hadAnchor /\ NoAnchor

\* C9: whenever an instance holds an anchor, orbit navigation is disabled.
C9_OrbitSuspendedWhileDragging == AnchorHeld => ~OrbitEnabled

\* C10: whenever no instance holds an anchor, the normals have been
\* recomputed after the last write to the vertex buffer.
C10_NormalsFreshWhenIdle == NoAnchor => ~normalsStale

====
